---- MODULE Spec2Model ----
(***************************************************************************)
(* Model of the two Streamlit front-ends of SD-VARIANCE:                   *)
(*   stock.py      stock volatility analyzer (returns, rolling std, risk)  *)
(*   tolerance.py  engineering tolerances analyzer (variance, risk)        *)
(*                                                                         *)
(* Numbers.  float64 values are modelled by exact rationals in lowest      *)
(* terms, plus NaN.  A standard deviation is the square root of a          *)
(* rational and is carried as its square; the thresholds it is compared    *)
(* with are non-negative slider values and are squared before the          *)
(* comparison, so that `>` on the squares is `>` on the values.            *)
(* String formatting of the reported numbers (f"{std:.4f}") is not         *)
(* modelled: the metrics hold the values handed to the formatter.          *)
(***************************************************************************)
EXTENDS Integers, Sequences, FiniteSets, TLC

VARIABLES
    \* ---- risk_assessment applied as a pure function (both front-ends)
    rk_d1, rk_d2, rk_low, rk_high, rk_stock, rk_tol,
    \* ---- tolerance.py script state
    measurements_input, low_tolerance, high_tolerance,
    measurements, variance, risk_level, tol_out, tol_pc,
    calls_variance, calls_risk,
    \* ---- stock.py script state
    tickers, low_threshold, medium_threshold, rolling_window, gemini_api_key,
    data, df, metrics, ti, emitted, pc,
    \* ---- stock.py history: what the download held for each ticker read,
    \* and how the summarizer behaved
    fetched, gemini

rk_vars  == <<rk_d1, rk_d2, rk_low, rk_high, rk_stock, rk_tol>>
tol_vars == <<measurements_input, low_tolerance, high_tolerance,
              measurements, variance, risk_level, tol_out, tol_pc,
              calls_variance, calls_risk>>
stock_vars == <<tickers, low_threshold, medium_threshold, rolling_window,
                gemini_api_key, data, df, metrics, ti, emitted, pc,
                fetched, gemini>>
vars == <<rk_vars, tol_vars, stock_vars>>

----------------------------------------------------------------------------
(* Bounds *)
MaxD   == 5      \* dispersion values 0..MaxD thousandths (and NaN)
MaxT   == 4      \* threshold values 0..MaxT thousandths
MaxLen == 4      \* longest enumerated measurement text
MaxRows == 8     \* most price rows the download returns for a ticker
MaxWindow == 6   \* largest rolling window drawn from the slider

----------------------------------------------------------------------------
(* float64 as exact rationals *)
RECURSIVE GCD(_, _)
GCD(a, b) == IF b = 0 THEN a ELSE GCD(b, a % b)

Abs(x) == IF x < 0 THEN -x ELSE x

NaN == [nan |-> TRUE, num |-> 0, den |-> 1]

Rat(n, d) ==
    LET g == GCD(Abs(n), Abs(d))
        s == IF d < 0 THEN -1 ELSE 1
    IN  [nan |-> FALSE, num |-> s * (n \div g), den |-> s * (d \div g)]

Zero == Rat(0, 1)

RAdd(a, b) ==
    IF a.nan \/ b.nan THEN NaN
    ELSE LET g == GCD(a.den, b.den)
         IN  Rat(a.num * (b.den \div g) + b.num * (a.den \div g),
                 (a.den \div g) * b.den)

RNeg(a) == IF a.nan THEN NaN ELSE [a EXCEPT !.num = -a.num]

RSub(a, b) == RAdd(a, RNeg(b))

RMul(a, b) ==
    IF a.nan \/ b.nan THEN NaN
    ELSE LET g1 == GCD(Abs(a.num), b.den)
             g2 == GCD(Abs(b.num), a.den)
         IN  Rat((a.num \div g1) * (b.num \div g2),
                 (a.den \div g2) * (b.den \div g1))

\* x / k for a positive integer k
RDivInt(a, k) == RMul(a, Rat(1, k))

\* Python's `a > b` on floats: False as soon as one side is NaN
Gt(a, b) ==
    /\ ~a.nan
    /\ ~b.nan
    /\ LET g == GCD(a.den, b.den)
       IN  a.num * (b.den \div g) > b.num * (a.den \div g)

RECURSIVE RSum(_)
RSum(s) == IF s = <<>> THEN Zero ELSE RAdd(Head(s), RSum(Tail(s)))

----------------------------------------------------------------------------
(* risk_assessment, stock.py *)
risk_assessment_mislabel(std, low, medium) ==
    IF Gt(std, medium) THEN "High"
    ELSE IF Gt(std, low) THEN "Low"
    ELSE "Medium"

risk_assessment(std, low, medium) ==
    IF Gt(std, medium) THEN "High"
    ELSE IF Gt(std, low) THEN "Medium"
    ELSE "Low"

(* risk_assessment, tolerance.py *)
risk_assessment_swapped(v, low, high) ==
    IF Gt(v, high) THEN "Medium Risk"
    ELSE IF Gt(v, low) THEN "High Risk"
    ELSE "Low Risk"

risk_assessment_geq(v, low, high) ==
    IF Gt(v, high) \/ v = high THEN "High Risk"
    ELSE IF Gt(v, low) \/ v = low THEN "Medium Risk"
    ELSE "Low Risk"

risk_assessment_tol(v, low, high) ==
    IF Gt(v, high) THEN "High Risk"
    ELSE IF Gt(v, low) THEN "Medium Risk"
    ELSE "Low Risk"

\* the three levels, in both front-ends' wording, as an ordinal
Level(r) ==
    CASE r \in {"Low", "Low Risk"}       -> 1
      [] r \in {"Medium", "Medium Risk"} -> 2
      [] r \in {"High", "High Risk"}     -> 3
      [] OTHER                           -> 0

----------------------------------------------------------------------------
(* risk_assessment applied to drawn inputs.  Dispersions and thresholds    *)
(* are integers in thousandths; NaNCode stands for a NaN dispersion (the   *)
(* std of fewer than two returns).                                         *)
NaNCode == -1

ToFloat(k) == IF k = NaNCode THEN NaN ELSE Rat(k, 1000)

RiskInit ==
    /\ rk_d1 \in (0..MaxD) \cup {NaNCode}
    /\ rk_d2 \in (0..MaxD) \cup {NaNCode}
    /\ rk_low \in 0..MaxT
    /\ rk_high \in 0..MaxT
    /\ rk_stock = <<>>
    /\ rk_tol = <<>>

ClassifyStock ==
    /\ rk_stock = <<>>
    /\ rk_stock' = << risk_assessment(ToFloat(rk_d1), ToFloat(rk_low), ToFloat(rk_high)),
                      risk_assessment(ToFloat(rk_d2), ToFloat(rk_low), ToFloat(rk_high)) >>
    /\ UNCHANGED <<rk_d1, rk_d2, rk_low, rk_high, rk_tol>>

ClassifyTolerance ==
    /\ rk_tol = <<>>
    /\ rk_tol' = << risk_assessment_tol(ToFloat(rk_d1), ToFloat(rk_low), ToFloat(rk_high)),
                    risk_assessment_tol(ToFloat(rk_d2), ToFloat(rk_low), ToFloat(rk_high)) >>
    /\ UNCHANGED <<rk_d1, rk_d2, rk_low, rk_high, rk_stock>>

RiskIdle ==
    /\ rk_d1 = 0 /\ rk_d2 = 0 /\ rk_low = 0 /\ rk_high = 0
    /\ rk_stock = <<>> /\ rk_tol = <<>>

----------------------------------------------------------------------------
(* tolerance.py: text of the measurement box, as a sequence of characters *)
Digits == {"0", "1", "2", "3", "4", "5", "6", "7", "8", "9"}

DigitVal == [c \in Digits |->
    CASE c = "0" -> 0 [] c = "1" -> 1 [] c = "2" -> 2 [] c = "3" -> 3
      [] c = "4" -> 4 [] c = "5" -> 5 [] c = "6" -> 6 [] c = "7" -> 7
      [] c = "8" -> 8 [] c = "9" -> 9]

\* str.split(','): n commas give n + 1 tokens, empty ones included
RECURSIVE SplitAcc(_, _, _)
SplitAcc(s, cur, acc) ==
    IF s = <<>> THEN Append(acc, cur)
    ELSE IF Head(s) = "," THEN SplitAcc(Tail(s), <<>>, Append(acc, cur))
    ELSE SplitAcc(Tail(s), Append(cur, Head(s)), acc)

Split(s) == SplitAcc(s, <<>>, <<>>)

\* float() ignores leading and trailing whitespace
RECURSIVE LStrip(_)
LStrip(t) == IF t # <<>> /\ Head(t) = " " THEN LStrip(Tail(t)) ELSE t

RECURSIVE RStrip(_)
RStrip(t) ==
    IF t # <<>> /\ t[Len(t)] = " " THEN RStrip(SubSeq(t, 1, Len(t) - 1)) ELSE t

Strip(t) == RStrip(LStrip(t))

\* float() accepts digits with at most one decimal point and at least one
\* digit (signs, exponents, inf/nan are outside the modelled alphabet)
IsFloat(tok) ==
    LET t == Strip(tok)
    IN  /\ \A i \in 1..Len(t) : t[i] \in Digits \cup {"."}
        /\ Cardinality({i \in 1..Len(t) : t[i] = "."}) <= 1
        /\ \E i \in 1..Len(t) : t[i] \in Digits

RECURSIVE Mantissa(_, _)
Mantissa(t, acc) ==
    IF t = <<>> THEN acc
    ELSE IF Head(t) = "." THEN Mantissa(Tail(t), acc)
    ELSE Mantissa(Tail(t), acc * 10 + DigitVal[Head(t)])

RECURSIVE Pow10(_)
Pow10(k) == IF k = 0 THEN 1 ELSE 10 * Pow10(k - 1)

FracDigits(t) ==
    IF \E i \in 1..Len(t) : t[i] = "."
    THEN Len(t) - (CHOOSE i \in 1..Len(t) : t[i] = ".")
    ELSE 0

\* float(tok) for a token IsFloat accepts
float(tok) ==
    LET t == Strip(tok)
    IN  Rat(Mantissa(t, 0), Pow10(FracDigits(t)))

\* list(map(float, text.split(','))): the whole list is built before its
\* length is looked at, so one bad token anywhere raises ValueError
ParseMeasurements_skipbad(text) ==
    LET toks == SelectSeq(Split(text), IsFloat)
    IN  [ok |-> TRUE, vals |-> [i \in 1..Len(toks) |-> float(toks[i])]]

ParseMeasurements(text) ==
    LET toks == Split(text)
    IN  IF \E i \in 1..Len(toks) : ~IsFloat(toks[i])
        THEN [ok |-> FALSE, vals |-> <<>>]
        ELSE [ok |-> TRUE, vals |-> [i \in 1..Len(toks) |-> float(toks[i])]]

\* np.var: population variance, mean first, then mean squared deviation
SqDevs(ms) ==
    LET n    == Len(ms)
        mean == RDivInt(RSum(ms), n)
    IN  [i \in 1..n |-> RMul(RSub(ms[i], mean), RSub(ms[i], mean))]

calculate_variance_ddof1(ms) == RDivInt(RSum(SqDevs(ms)), Len(ms) - 1)

calculate_variance(ms) == RDivInt(RSum(SqDevs(ms)), Len(ms))

Alphabet == {"1", "2", ".", ",", " ", "x"}

RECURSIVE TextsOfLen(_)
TextsOfLen(k) ==
    IF k = 0 THEN {<<>>}
    ELSE {Append(t, c) : t \in TextsOfLen(k - 1), c \in Alphabet}

\* "10.02, 10.05, 10.03, 9.98, 10.00"
ScenarioA ==
    << "1","0",".","0","2", ",", " ", "1","0",".","0","5", ",", " ",
       "1","0",".","0","3", ",", " ", "9",".","9","8", ",", " ",
       "1","0",".","0","0" >>

\* "10.00, 10.00, 10.00"
ScenarioB ==
    << "1","0",".","0","0", ",", " ", "1","0",".","0","0", ",", " ",
       "1","0",".","0","0" >>

Texts == UNION {TextsOfLen(k) : k \in 0..MaxLen} \cup {ScenarioA, ScenarioB}

\* slider positions, in steps of 0.0001
LowTolerances  == {Rat(0, 10000), Rat(4, 10000)}
HighTolerances == {Rat(0, 10000), Rat(16, 10000)}

Item(k) == [kind |-> k]

TolInit ==
    /\ measurements_input \in Texts
    /\ low_tolerance \in LowTolerances
    /\ high_tolerance \in HighTolerances
    /\ measurements = <<>>
    /\ variance = NaN
    /\ risk_level = "none"
    /\ tol_out = <<>>
    /\ tol_pc = "start"
    /\ calls_variance = 0
    /\ calls_risk = 0

TolConfig == <<measurements_input, low_tolerance, high_tolerance>>

\* `if measurements_input:` is false for the empty text
TolNoInput ==
    /\ tol_pc = "start"
    /\ measurements_input = <<>>
    /\ tol_out' = Append(tol_out, Item("info"))
    /\ tol_pc' = "done"
    /\ UNCHANGED <<TolConfig, measurements, variance, risk_level,
                   calls_variance, calls_risk>>

TolInvalid ==
    /\ tol_pc = "start"
    /\ measurements_input # <<>>
    /\ ~ParseMeasurements(measurements_input).ok
    /\ tol_out' = Append(tol_out, Item("error"))
    /\ tol_pc' = "done"
    /\ UNCHANGED <<TolConfig, measurements, variance, risk_level,
                   calls_variance, calls_risk>>

TolTooFew ==
    /\ tol_pc = "start"
    /\ measurements_input # <<>>
    /\ LET p == ParseMeasurements(measurements_input)
       IN  /\ p.ok
           /\ Len(p.vals) < 2
           /\ measurements' = p.vals
    /\ tol_out' = Append(tol_out, Item("warning"))
    /\ tol_pc' = "done"
    /\ UNCHANGED <<TolConfig, variance, risk_level, calls_variance, calls_risk>>

TolAnalyze ==
    /\ tol_pc = "start"
    /\ measurements_input # <<>>
    /\ LET p == ParseMeasurements(measurements_input)
       IN  /\ p.ok
           /\ Len(p.vals) >= 2
           /\ measurements' = p.vals
           /\ LET v == calculate_variance(p.vals)
                  r == risk_assessment_tol(v, low_tolerance, high_tolerance)
              IN  /\ variance' = v
                  /\ risk_level' = r
                  /\ tol_out' = tol_out \o
                        << [kind |-> "variance", value |-> v],
                           [kind |-> "risk", level |-> r],
                           Item("chart"),
                           [kind |-> "compliance", level |-> r] >>
    /\ calls_variance' = calls_variance + 1
    /\ calls_risk' = calls_risk + 1
    /\ tol_pc' = "done"
    /\ UNCHANGED TolConfig

TolIdle ==
    /\ measurements_input = <<>>
    /\ low_tolerance = Zero /\ high_tolerance = Zero
    /\ measurements = <<>> /\ variance = NaN /\ risk_level = "none"
    /\ tol_out = <<>> /\ tol_pc = "idle"
    /\ calls_variance = 0 /\ calls_risk = 0

----------------------------------------------------------------------------
(* stock.py *)
MinWindow == 5

Prices == {20, 21}

OtherPrice(p) == CHOOSE q \in Prices : q # p

\* the Close column of one ticker: zero rows up to MaxRows rows, the first
\* k rows at one price and the rows after them at the other
CloseSeries ==
    {<<>>} \cup
    {[j \in 1..n |-> IF j <= k THEN p ELSE OtherPrice(p)] :
        n \in 1..MaxRows, k \in 1..MaxRows, p \in Prices}

TickerSelections == {<<>>, <<"AAPL">>, <<"AAPL", "MSFT">>}

TickerOptions == {"AAPL", "MSFT"}

\* slider positions, in steps of 0.001
LowSteps == {15, 30}
MediumSteps == {30}

\* a threshold t >= 0 in the representation of a standard deviation: t * t
Sq(k) == Rat(k * k, 1000000)

\* a download that has no column for the ticker
NoColumns == [t \in {} |-> <<>>]

\* what data[ticker] can find: no column (KeyError) or a Close series
Download(ticker) ==
    {NoColumns} \cup {[t \in {ticker} |-> c] : c \in CloseSeries}

IsNaN(x) == x.nan

\* Series.std() / Series.var(): NaN entries skipped, ddof = 1, NaN when
\* fewer than two values remain.  Returned as the variance (see Numbers).
SampleVar(xs) ==
    LET ys == SelectSeq(xs, LAMBDA x : ~IsNaN(x))
        n  == Len(ys)
    IN  IF n < 2 THEN NaN ELSE RDivInt(RSum(SqDevs(ys)), n - 1)

\* df['Close'].pct_change(): first row NaN
PctChange(close) ==
    [j \in 1..Len(close) |->
        IF j = 1 THEN NaN ELSE Rat(close[j] - close[j - 1], close[j - 1])]

\* Series.rolling(window).std(): min_periods = window, so a value needs
\* window rows of which none is NaN
RollingStd_short(ret, w) ==
    [j \in 1..Len(ret) |->
        IF j < w - 1 \/ \E k \in (j - w + 2)..j : IsNaN(ret[k])
        THEN NaN
        ELSE SampleVar(SubSeq(ret, j - w + 2, j))]

RollingStd(ret, w) ==
    [j \in 1..Len(ret) |->
        IF j < w \/ \E k \in (j - w + 1)..j : IsNaN(ret[k])
        THEN NaN
        ELSE SampleVar(SubSeq(ret, j - w + 1, j))]

\* Series.rolling(window).mean()
RollingMean(close, w) ==
    [j \in 1..Len(close) |->
        IF j < w THEN NaN
        ELSE RDivInt(RSum([k \in 1..w |-> Rat(close[j - w + k], 1)]), w)]

\* DataFrame.dropna(): rows with a NaN in any column go
dropna(rows) ==
    SelectSeq(rows, LAMBDA r : ~IsNaN(r.Return) /\ ~IsNaN(r.RollingVolatility)
                               /\ ~IsNaN(r.MA))

\* process_ticker for a ticker the download has a column for; idx is the
\* row's position in the downloaded frame (the DataFrame index)
process_ticker(d, ticker, window) ==
    LET close == d[ticker]
        ret   == PctChange(close)
        vol   == RollingStd(ret, window)
        ma    == RollingMean(close, window)
    IN  dropna([j \in 1..Len(close) |->
                 [idx |-> j, Close |-> close[j], Return |-> ret[j],
                  RollingVolatility |-> vol[j], MA |-> ma[j]]])

Column(rows, f) == [j \in 1..Len(rows) |-> rows[j][f]]

\* how the summarizer behaves when it is called
GeminiOutcomes == {"ok", "configure_raises", "model_raises", "generate_raises"}

\* generate_gemini_insight: only generate_content sits inside the try
generate_gemini_insight(key, outcome) ==
    IF ~key THEN [raised |-> FALSE, ret |-> "None", shown |-> <<>>]
    ELSE IF outcome \in {"configure_raises", "model_raises"}
         THEN [raised |-> TRUE, ret |-> "None", shown |-> <<>>]
    ELSE IF outcome = "generate_raises"
         THEN [raised |-> FALSE, ret |-> "None", shown |-> <<Item("gemini_error")>>]
    ELSE [raised |-> FALSE, ret |-> "text", shown |-> <<>>]

StockConfig == <<tickers, low_threshold, medium_threshold, rolling_window,
                 gemini_api_key>>

StockInit ==
    /\ tickers \in TickerSelections
    /\ low_threshold \in LowSteps
    /\ medium_threshold \in MediumSteps
    /\ rolling_window \in MinWindow..MaxWindow
    /\ gemini_api_key \in BOOLEAN
    /\ data = NoColumns
    /\ df = <<>>
    /\ metrics = <<>>
    /\ ti = 1
    /\ emitted = <<>>
    /\ pc = "start"
    /\ fetched = [t \in TickerOptions |-> "unread"]
    /\ gemini = "unused"

\* `if tickers:` is false
NoSelection ==
    /\ pc = "start"
    /\ tickers = <<>>
    /\ emitted' = Append(emitted, Item("info"))
    /\ pc' = "done"
    /\ UNCHANGED <<StockConfig, data, df, metrics, ti, fetched, gemini>>

\* load_data, metrics = [], returns = []
LoadData ==
    /\ pc = "start"
    /\ tickers # <<>>
    /\ metrics' = <<>>
    /\ ti' = 1
    /\ pc' = "loop"
    /\ UNCHANGED <<StockConfig, data, df, emitted, fetched, gemini>>

\* one iteration of `for ticker in tickers` that runs to its end
AnalyzeTicker ==
    /\ pc = "loop"
    /\ ti <= Len(tickers)
    /\ \E d \in Download(tickers[ti]) :
        /\ tickers[ti] \in DOMAIN d
        /\ data' = d
        /\ fetched' = [fetched EXCEPT ![tickers[ti]] =
                          IF Len(d[tickers[ti]]) = 0 THEN "empty" ELSE "rows"]
        /\ LET frame == process_ticker(d, tickers[ti], rolling_window)
               std   == SampleVar(Column(frame, "Return"))
               var   == SampleVar(Column(frame, "Return"))
               risk  == risk_assessment(std, Sq(low_threshold), Sq(medium_threshold))
           IN  /\ df' = frame
               /\ metrics' = Append(metrics,
                     [Ticker |-> tickers[ti], std |-> std, var |-> var,
                      RiskLevel |-> risk])
               /\ emitted' = Append(emitted,
                     [kind |-> "expander", ticker |-> tickers[ti]])
    /\ ti' = ti + 1
    /\ UNCHANGED <<StockConfig, pc, gemini>>

\* data[ticker] raises KeyError: `except KeyError` ends the run
TickerKeyError ==
    /\ pc = "loop"
    /\ ti <= Len(tickers)
    /\ \E d \in Download(tickers[ti]) :
        /\ tickers[ti] \notin DOMAIN d
        /\ data' = d
    /\ fetched' = [fetched EXCEPT ![tickers[ti]] = "missing"]
    /\ emitted' = Append(emitted, Item("key_error"))
    /\ pc' = "done"
    /\ UNCHANGED <<StockConfig, df, metrics, ti, gemini>>

\* metric boxes, box plot and correlation heatmap
CrossAsset ==
    /\ pc = "loop"
    /\ ti > Len(tickers)
    /\ emitted' = Append(emitted, Item("cross"))
    /\ data' = NoColumns
    /\ df' = <<>>
    /\ pc' = "insight"
    /\ UNCHANGED <<StockConfig, metrics, ti, fetched, gemini>>

\* `if gemini_api_key:` is false
SkipInsight ==
    /\ pc = "insight"
    /\ ~gemini_api_key
    /\ gemini' = "absent"
    /\ pc' = "done"
    /\ UNCHANGED <<StockConfig, data, df, metrics, ti, emitted, fetched>>

InsightShown ==
    /\ pc = "insight"
    /\ gemini_api_key
    /\ \E o \in GeminiOutcomes :
        LET g == generate_gemini_insight(gemini_api_key, o)
        IN  /\ ~g.raised
            /\ g.ret = "text"
            /\ gemini' = o
            /\ emitted' = emitted \o g.shown \o <<Item("insight")>>
    /\ pc' = "done"
    /\ UNCHANGED <<StockConfig, data, df, metrics, ti, fetched>>

InsightUnavailable ==
    /\ pc = "insight"
    /\ gemini_api_key
    /\ \E o \in GeminiOutcomes :
        LET g == generate_gemini_insight(gemini_api_key, o)
        IN  /\ ~g.raised
            /\ g.ret = "None"
            /\ gemini' = o
            /\ emitted' = emitted \o g.shown \o <<Item("warning")>>
    /\ pc' = "done"
    /\ UNCHANGED <<StockConfig, data, df, metrics, ti, fetched>>

\* an exception leaving generate_gemini_insight reaches `except Exception`
InsightRaises ==
    /\ pc = "insight"
    /\ gemini_api_key
    /\ \E o \in GeminiOutcomes :
        LET g == generate_gemini_insight(gemini_api_key, o)
        IN  /\ g.raised
            /\ gemini' = o
            /\ emitted' = Append(emitted, Item("generic_error"))
    /\ pc' = "done"
    /\ UNCHANGED <<StockConfig, data, df, metrics, ti, fetched>>

StockIdle ==
    /\ tickers = <<>>
    /\ low_threshold = 15 /\ medium_threshold = 30
    /\ rolling_window = MinWindow /\ gemini_api_key = FALSE
    /\ data = NoColumns /\ df = <<>> /\ metrics = <<>> /\ ti = 1
    /\ emitted = <<>> /\ pc = "idle"
    /\ fetched = [t \in TickerOptions |-> "unread"]
    /\ gemini = "unused"

----------------------------------------------------------------------------
InitRisk == RiskInit /\ TolIdle /\ StockIdle
NextRisk ==
    \/ ClassifyStock /\ UNCHANGED <<tol_vars, stock_vars>>
    \/ ClassifyTolerance /\ UNCHANGED <<tol_vars, stock_vars>>
SpecRisk == InitRisk /\ [][NextRisk]_vars

InitTol == TolInit /\ RiskIdle /\ StockIdle
NextTol ==
    \/ TolNoInput /\ UNCHANGED <<rk_vars, stock_vars>>
    \/ TolInvalid /\ UNCHANGED <<rk_vars, stock_vars>>
    \/ TolTooFew /\ UNCHANGED <<rk_vars, stock_vars>>
    \/ TolAnalyze /\ UNCHANGED <<rk_vars, stock_vars>>
SpecTol == InitTol /\ [][NextTol]_vars

InitStock == StockInit /\ RiskIdle /\ TolIdle
NextStock ==
    \/ NoSelection /\ UNCHANGED <<rk_vars, tol_vars>>
    \/ LoadData /\ UNCHANGED <<rk_vars, tol_vars>>
    \/ AnalyzeTicker /\ UNCHANGED <<rk_vars, tol_vars>>
    \/ TickerKeyError /\ UNCHANGED <<rk_vars, tol_vars>>
    \/ CrossAsset /\ UNCHANGED <<rk_vars, tol_vars>>
    \/ SkipInsight /\ UNCHANGED <<rk_vars, tol_vars>>
    \/ InsightShown /\ UNCHANGED <<rk_vars, tol_vars>>
    \/ InsightUnavailable /\ UNCHANGED <<rk_vars, tol_vars>>
    \/ InsightRaises /\ UNCHANGED <<rk_vars, tol_vars>>
SpecStock == InitStock /\ [][NextStock]_vars

----------------------------------------------------------------------------
(* Properties *)

\* the level the thresholds call for, on the drawn integers
ExpectLevel(k, lo, hi) ==
    IF k # NaNCode /\ k > hi THEN 3
    ELSE IF k # NaNCode /\ k > lo THEN 2
    ELSE 1

RkD(j) == IF j = 1 THEN rk_d1 ELSE rk_d2

\* C1: for every dispersion d and thresholds (low, high), low > high
\* included, both risk_assessment functions return High when d > high,
\* else Medium when d > low, else Low, and always one of the three levels.
C1_RiskByThresholds ==
    /\ rk_stock # <<>> =>
         \A j \in 1..2 :
            /\ rk_stock[j] \in {"High", "Medium", "Low"}
            /\ Level(rk_stock[j]) = ExpectLevel(RkD(j), rk_low, rk_high)
    /\ rk_tol # <<>> =>
         \A j \in 1..2 :
            /\ rk_tol[j] \in {"High Risk", "Medium Risk", "Low Risk"}
            /\ Level(rk_tol[j]) = ExpectLevel(RkD(j), rk_low, rk_high)

\* both functions applied with misordered thresholds to a value between them
C1_Witness ==
    /\ rk_stock # <<>> /\ rk_tol # <<>>
    /\ rk_low > rk_high
    /\ rk_d1 > rk_high /\ rk_d1 <= rk_low
    /\ rk_stock[1] = "High" /\ rk_tol[1] = "High Risk"
    /\ rk_d2 = NaNCode /\ rk_stock[2] = "Low"

\* boundary behaviour of one result r for dispersion k
BoundaryOriginal(k, r) ==
    /\ k = rk_low => Level(r) = 1
    /\ k = rk_high => Level(r) = 2
    /\ (k > rk_low /\ k <= rk_high) => Level(r) = 2
    /\ k > rk_high => Level(r) = 3

BoundaryAmended(k, r) ==
    /\ k = rk_low => Level(r) = 1
    /\ (k = rk_high /\ rk_low < rk_high) => Level(r) = 2
    /\ (k > rk_low /\ k <= rk_high) => Level(r) = 2
    /\ k > rk_high => Level(r) = 3

\* C2 as stated: for every low <= high, classify(low) = Low,
\* classify(high) = Medium, low < d <= high gives Medium, d > high gives High.
C2_BoundaryAsStated ==
    (rk_low <= rk_high /\ rk_d1 # NaNCode) =>
        /\ rk_stock # <<>> => BoundaryOriginal(rk_d1, rk_stock[1])
        /\ rk_tol # <<>> => BoundaryOriginal(rk_d1, rk_tol[1])

\* C2 amended: for every low <= high, classify(low) = Low, low < d <= high
\* gives Medium and d > high gives High; classify(high) = Medium when
\* low < high (when low = high the Medium band is empty and it is Low).
C2_Boundary ==
    (rk_low <= rk_high /\ rk_d1 # NaNCode) =>
        /\ rk_stock # <<>> => BoundaryAmended(rk_d1, rk_stock[1])
        /\ rk_tol # <<>> => BoundaryAmended(rk_d1, rk_tol[1])

C2_Witness ==
    /\ rk_stock # <<>> /\ rk_tol # <<>>
    /\ rk_low < rk_high
    /\ rk_d1 = rk_high /\ rk_stock[1] = "Medium" /\ rk_tol[1] = "Medium Risk"
    /\ rk_d2 = rk_low /\ rk_stock[2] = "Low" /\ rk_tol[2] = "Low Risk"

\* C3: for low <= high and d1 <= d2, the level of d1 is not above the
\* level of d2 (Low < Medium < High).
C3_Monotone ==
    (rk_low <= rk_high /\ rk_d1 # NaNCode /\ rk_d2 # NaNCode /\ rk_d1 <= rk_d2) =>
        /\ rk_stock # <<>> => Level(rk_stock[1]) <= Level(rk_stock[2])
        /\ rk_tol # <<>> => Level(rk_tol[1]) <= Level(rk_tol[2])

C3_Witness ==
    /\ rk_stock # <<>> /\ rk_tol # <<>>
    /\ rk_low < rk_high /\ rk_d1 < rk_d2
    /\ rk_stock[1] = "Low" /\ rk_stock[2] = "High"
    /\ rk_tol[1] = "Low Risk" /\ rk_tol[2] = "High Risk"

\* the measurement text, token by token
Tokens == Split(measurements_input)

HasBadToken == \E k \in 1..Len(Tokens) : ~IsFloat(Tokens[k])

Kinds(out) == {out[k].kind : k \in 1..Len(out)}

\* C6: an empty text, a single value or a text with a non-numeric token
\* ends in one message with calculate_variance and risk_assessment never
\* run and no variance or risk level reported; two or more numeric tokens
\* run each of them exactly once.
C6_ValidationBeforeAnalysis ==
    tol_pc = "done" =>
        IF measurements_input = <<>> \/ HasBadToken \/ Len(Tokens) < 2
        THEN /\ calls_variance = 0 /\ calls_risk = 0
             /\ Len(tol_out) = 1
             /\ tol_out[1].kind \in {"info", "warning", "error"}
             /\ variance = NaN /\ risk_level = "none"
        ELSE /\ calls_variance = 1 /\ calls_risk = 1
             /\ {"variance", "risk"} \subseteq Kinds(tol_out)
             /\ Kinds(tol_out) \cap {"info", "warning", "error"} = {}

\* a text with two numeric tokens and a bad one was rejected
C6_Witness ==
    /\ tol_pc = "done"
    /\ HasBadToken
    /\ Cardinality({k \in 1..Len(Tokens) : IsFloat(Tokens[k])}) >= 2
    /\ tol_out = <<Item("error")>>
    /\ calls_variance = 0

\* value rounded to five decimals, in units of 0.00001
Round5(v) == (2 * v.num * 100000 + v.den) \div (2 * v.den)

ScenarioADone ==
    /\ tol_pc = "done"
    /\ measurements_input = ScenarioA
    /\ low_tolerance = Rat(4, 10000)
    /\ high_tolerance = Rat(16, 10000)

\* C8 as stated: for [10.02, 10.05, 10.03, 9.98, 10.00] the population
\* variance rounds to 0.00067 and the level is Medium Risk.
C8_ScenarioAAsStated ==
    ScenarioADone =>
        /\ Round5(variance) = 67
        /\ risk_level = "Medium Risk"

\* C8 amended: for [10.02, 10.05, 10.03, 9.98, 10.00] calculate_variance
\* returns the population variance 0.00292 / 5 = 0.000584, which rounds to
\* 0.00058, and with low = 0.0004, high = 0.0016 the level is Medium Risk.
C8_ScenarioA ==
    ScenarioADone =>
        /\ variance = Rat(584, 1000000)
        /\ RMul(variance, Rat(5, 1)) = Rat(292, 100000)
        /\ Round5(variance) = 58
        /\ risk_level = "Medium Risk"

C8_Witness ==
    /\ ScenarioADone
    /\ calls_variance = 1
    /\ Len(measurements) = 5
    /\ measurements[4] = Rat(998, 100)
    /\ risk_level = "Medium Risk"

\* the ticker whose iteration has just ended and its downloaded Close rows
LastTicker == tickers[ti - 1]

JustAnalyzed == pc = "loop" /\ ti > 1 /\ DOMAIN data # {}

LastClose == data[LastTicker]

Max0(x) == IF x < 0 THEN 0 ELSE x

\* number of clean returns of the last ticker: every row but the first
CleanReturns == Max0(Len(LastClose) - 1)

\* C9: for m clean returns and a window w >= 2, process_ticker's rolling
\* volatility has exactly max(0, m - (w - 1)) values, one for each return
\* position i >= w - 1 in the original order; for w > m it is empty and
\* nothing is raised.
C9_RollingLength ==
    JustAnalyzed =>
        /\ Len(df) = Max0(CleanReturns - (rolling_window - 1))
        /\ \A j \in 1..Len(df) :
              /\ ~IsNaN(df[j].RollingVolatility)
              \* row idx holds return number idx - 2, counted from 0
              /\ df[j].idx - 2 = (rolling_window - 1) + (j - 1)
        /\ \A k \in 1..Len(emitted) : emitted[k].kind = "expander"

\* a frame with rolling values left, after a window shorter than the series
C9_Witness ==
    /\ JustAnalyzed
    /\ CleanReturns > rolling_window
    /\ Len(df) >= 2
    /\ df[1].idx = rolling_window + 1

\* the last ticker's full return series: all n - 1 returns of its n rows
FullReturns == PctChange(LastClose)

\* C10: the reported standard deviation and variance are those of the
\* ticker's full return series, hence the same, with the same risk level,
\* for every rolling window.
C10_StaticOverFullSeries ==
    JustAnalyzed =>
        LET m == metrics[Len(metrics)]
        IN  /\ m.Ticker = LastTicker
            /\ m.var = SampleVar(FullReturns)
            /\ m.std = SampleVar(FullReturns)
            /\ m.RiskLevel = risk_assessment(SampleVar(FullReturns),
                                 Sq(low_threshold), Sq(medium_threshold))

\* C5: when fewer than 2 clean return rows remain after process_ticker, no
\* risk level is assigned to the ticker and the run reports an error.
C5_InsufficientData ==
    /\ (JustAnalyzed /\ Len(df) < 2) =>
          \A k \in 1..Len(metrics) : metrics[k].Ticker # LastTicker
    /\ (pc = "done" /\ \E k \in 1..Len(metrics) : IsNaN(metrics[k].std)) =>
          \E k \in 1..Len(emitted) :
              emitted[k].kind \in {"key_error", "generic_error"}

\* C4: when a selected ticker's data is missing or has zero rows, the run
\* ends in an error message and nothing of any ticker has been presented.
C4_NoPartialResult ==
    (pc = "done" /\ \E t \in TickerOptions : fetched[t] \in {"missing", "empty"}) =>
        /\ \E k \in 1..Len(emitted) :
              emitted[k].kind \in {"key_error", "generic_error"}
        /\ \A k \in 1..Len(emitted) :
              emitted[k].kind \notin {"expander", "cross", "insight"}

\* C7: a summarizer that is absent or fails at any step leaves the run at
\* "no insight": all tickers' metrics and the cross-asset part are there
\* and the run does not end in the generic error.
C7_SummarizerDegrades ==
    (pc = "done" /\ gemini \in {"absent", "configure_raises", "model_raises",
                                "generate_raises"}) =>
        /\ Len(metrics) = Len(tickers)
        /\ \E k \in 1..Len(emitted) : emitted[k].kind = "cross"
        /\ \A k \in 1..Len(emitted) :
              emitted[k].kind \notin {"generic_error", "insight"}

====
